---- MODULE Spec2Model ----
(***************************************************************************)
(* The implicit-free-list allocator of mm.c (mm_init, mm_malloc, mm_free,  *)
(* mm_realloc over extend_heap, coalesce, find_fit and place).             *)
(*                                                                         *)
(* The heap is a byte memory.  A pointer is an address; the heap region    *)
(* starts at HeapBase and ends before mem_brk.  A byte of the region that  *)
(* was never written is absent from the domain of mem: its value is        *)
(* indeterminate.  Boundary tags are 4-byte little-endian words.           *)
(* size_t is SizeBits wide and its arithmetic wraps modulo 2^SizeBits.     *)
(* A read of an indeterminate word, an access outside the heap region or   *)
(* an overlapping memcpy is undefined behaviour: the record of the heap    *)
(* carries the flag ub, and a call that sets it leads to the state ub in   *)
(* which nothing more is known of the program.                             *)
(***************************************************************************)
EXTENDS Integers, Naturals, Sequences, FiniteSets, TLC

\* ---------------------------------------------------------------- bounds
SizeBits == 16      \* width of size_t and of a pointer in the model
MaxHeap == 8224     \* the largest heap the growth primitive supplies, bytes
MaxLive == 2        \* pointers the caller holds at one time
HistLen == 3        \* calls the run's record keeps, the latest last
MaxCalls == 4       \* calls of the allocator in one run, mm_init included
MaxReq == 64        \* the adjustment is tried on the MaxReq + 1 least and greatest sizes

SizeMod == 2 ^ SizeBits

\* ------------------------------------------------------------- constants
ALIGNMENT == 8
WSIZE == 4
DSIZE == 8
CHUNKSIZE == 4096
NULL == 0
HeapBase == 8       \* mem_heap, the address of the first byte of the region
SBRK_FAIL == SizeMod - 1    \* (void *)-1

\* request sizes the caller passes: small, on and off an 8-byte boundary,
\* near a chunk, and the largest values of size_t
Sizes == {1, 16, 4048, 4090, SizeMod - 8, SizeMod - 1}
\* the sizes it passes to mm_realloc with a pointer it holds
ReSizes == {0, 1, 4090}
\* the sizes it passes to mm_realloc with a null pointer
NullSizes == {0, 16}
\* the limits of the growth primitive under which a run takes place
HeapLimits == {8, 2048, MaxHeap}
\* a byte the caller stores in a payload
PayloadByte == 85

VARIABLES
    mem,        \* the written bytes of the heap region: address -> 0..255
    mem_brk,    \* the address one past the heap region
    mem_max,    \* the size limit of the region (mem_max_addr - mem_heap)
    heap_listp, \* the allocator's global
    ub,         \* undefined behaviour has happened
    phase,      \* "new", "ready" (mm_init returned 0), "failed" (it returned -1)
    live,       \* the caller's pointers: <<pointer, requested size>>
    hist,       \* the latest HistLen calls, oldest first
    ncalls,     \* the number of calls made
    wrapped,    \* a request made so far was so large that its adjusted size wraps
    req,        \* mm_malloc's size, the latest time it went on to adjust it
    adjusted    \* mm_malloc's asize for that size

vars == <<mem, mem_brk, mem_max, heap_listp, ub, phase, live, hist, ncalls, wrapped,
          req, adjusted>>

\* size_t arithmetic
Wrap(x) == x % SizeMod
MAX(x, y) == IF x > y THEN x ELSE y
\* (size) | (alloc), alloc being 0 or 1
PACK(size, alloc) == IF size % 2 = 1 THEN size ELSE size + alloc

\* ------------------------------------------------------------ the memory
\* A heap is a record [mem, brk, ub].
Heap(m, b, u) == [mem |-> m, brk |-> b, ub |-> u]

InHeap(h, p, n) == p >= HeapBase /\ p + n <= h.brk

Readable(h, p) == InHeap(h, p, WSIZE) /\ \A i \in 0 .. WSIZE - 1 : (p + i) \in DOMAIN h.mem

\* the heap after the code has read the words at the addresses of S
Reads(h, S) == [h EXCEPT !.ub = @ \/ \E p \in S : ~Readable(h, p)]

GET(h, p) ==
    IF Readable(h, p)
    THEN h.mem[p] + 256 * h.mem[p + 1] + 65536 * h.mem[p + 2] + 16777216 * h.mem[p + 3]
    ELSE 0

WordBytes(p, val) ==
    [a \in p .. p + WSIZE - 1 |->
        CASE a = p     -> val % 256
          [] a = p + 1 -> (val \div 256) % 256
          [] a = p + 2 -> (val \div 65536) % 256
          [] OTHER     -> (val \div 16777216) % 256]

PUT(h, p, val) ==
    IF h.ub \/ ~InHeap(h, p, WSIZE)
    THEN [h EXCEPT !.ub = TRUE]
    ELSE [h EXCEPT !.mem = WordBytes(p, val) @@ h.mem]

GET_SIZE(h, p) == (GET(h, p) \div 8) * 8
GET_ALLOC(h, p) == GET(h, p) % 2

HDRP(bp) == bp - WSIZE
FTRP(h, bp) == bp + GET_SIZE(h, HDRP(bp)) - DSIZE
NEXT_BLKP(h, bp) == bp + GET_SIZE(h, bp - WSIZE)
PREV_BLKP(h, bp) == bp - GET_SIZE(h, bp - DSIZE)

\* ------------------------------------------------- the growth primitive
\* mem_sbrk(incr): the old break, or no growth when the region would pass
\* its limit.  Result: [ok, old, h].
mem_sbrk(h, limit, incr) ==
    IF h.brk + incr > HeapBase + limit
    THEN [ok |-> FALSE, old |-> SBRK_FAIL, h |-> h]
    ELSE [ok |-> TRUE, old |-> h.brk, h |-> [h EXCEPT !.brk = h.brk + incr]]

\* ----------------------------------------------------------- coalesce
\* coalesce with a slip: case 4 leaves the size of the next block out
coalesce_forgets_next(h, bp) ==
    LET prev  == PREV_BLKP(h, bp)
        next  == NEXT_BLKP(h, bp)
        h0    == Reads(h, {bp - DSIZE, HDRP(prev), FTRP(h, prev),
                           bp - WSIZE, HDRP(next), HDRP(bp)})
        prev_alloc == GET_ALLOC(h, FTRP(h, prev))
        next_alloc == GET_ALLOC(h, HDRP(next))
        size  == GET_SIZE(h, HDRP(bp))
    IN  IF h0.ub THEN [bp |-> bp, h |-> h0]
        ELSE IF prev_alloc = 1 /\ next_alloc = 1 THEN
            [bp |-> bp, h |-> h0]
        ELSE IF prev_alloc = 1 /\ next_alloc = 0 THEN
            LET size2 == Wrap(size + GET_SIZE(h0, HDRP(next)))
                h1 == PUT(h0, HDRP(bp), PACK(size2, 0))
                h2 == PUT(h1, FTRP(h1, bp), PACK(size2, 0))
            IN  [bp |-> bp, h |-> h2]
        ELSE IF prev_alloc = 0 /\ next_alloc = 1 THEN
            LET size3 == Wrap(size + GET_SIZE(h0, HDRP(prev)))
                h1 == PUT(h0, FTRP(h0, bp), PACK(size3, 0))
                h2 == PUT(Reads(h1, {bp - DSIZE}), HDRP(PREV_BLKP(h1, bp)), PACK(size3, 0))
                h3 == Reads(h2, {bp - DSIZE})
            IN  [bp |-> PREV_BLKP(h2, bp), h |-> h3]
        ELSE
            LET r0 == Reads(h0, {FTRP(h0, next)})
                size4 == Wrap(size + GET_SIZE(h0, HDRP(prev)))
                h1 == PUT(r0, HDRP(prev), PACK(size4, 0))
                r1 == Reads(h1, {bp - WSIZE, HDRP(NEXT_BLKP(h1, bp))})
                h2 == PUT(r1, FTRP(h1, NEXT_BLKP(h1, bp)), PACK(size4, 0))
                h3 == Reads(h2, {bp - DSIZE})
            IN  [bp |-> PREV_BLKP(h2, bp), h |-> h3]

\* Result of the functions that return a block: [bp, h].
coalesce(h, bp) ==
    LET prev  == PREV_BLKP(h, bp)
        next  == NEXT_BLKP(h, bp)
        h0    == Reads(h, {bp - DSIZE, HDRP(prev), FTRP(h, prev),
                           bp - WSIZE, HDRP(next), HDRP(bp)})
        prev_alloc == GET_ALLOC(h, FTRP(h, prev))
        next_alloc == GET_ALLOC(h, HDRP(next))
        size  == GET_SIZE(h, HDRP(bp))
    IN  IF h0.ub THEN [bp |-> bp, h |-> h0]
        ELSE IF prev_alloc = 1 /\ next_alloc = 1 THEN
            [bp |-> bp, h |-> h0]
        ELSE IF prev_alloc = 1 /\ next_alloc = 0 THEN
            LET size2 == Wrap(size + GET_SIZE(h0, HDRP(next)))
                h1 == PUT(h0, HDRP(bp), PACK(size2, 0))
                h2 == PUT(h1, FTRP(h1, bp), PACK(size2, 0))
            IN  [bp |-> bp, h |-> h2]
        ELSE IF prev_alloc = 0 /\ next_alloc = 1 THEN
            LET size3 == Wrap(size + GET_SIZE(h0, HDRP(prev)))
                h1 == PUT(h0, FTRP(h0, bp), PACK(size3, 0))
                h2 == PUT(Reads(h1, {bp - DSIZE}), HDRP(PREV_BLKP(h1, bp)), PACK(size3, 0))
                h3 == Reads(h2, {bp - DSIZE})
            IN  [bp |-> PREV_BLKP(h2, bp), h |-> h3]
        ELSE
            LET r0 == Reads(h0, {FTRP(h0, next)})
                size4 == Wrap(size + GET_SIZE(h0, HDRP(prev)) + GET_SIZE(h0, FTRP(h0, next)))
                h1 == PUT(r0, HDRP(prev), PACK(size4, 0))
                r1 == Reads(h1, {bp - WSIZE, HDRP(NEXT_BLKP(h1, bp))})
                h2 == PUT(r1, FTRP(h1, NEXT_BLKP(h1, bp)), PACK(size4, 0))
                h3 == Reads(h2, {bp - DSIZE})
            IN  [bp |-> PREV_BLKP(h2, bp), h |-> h3]

\* ---------------------------------------------------------- extend_heap
extend_heap(h, limit, words) ==
    LET size == IF words % 2 = 1 THEN Wrap((words + 1) * WSIZE) ELSE Wrap(words * WSIZE)
        s  == mem_sbrk(h, limit, size)
        bp == s.old
        h1 == PUT(s.h, HDRP(bp), PACK(size, 0))
        h2 == PUT(Reads(h1, {HDRP(bp)}), FTRP(h1, bp), PACK(size, 0))
        h3 == PUT(Reads(h2, {HDRP(bp)}), HDRP(NEXT_BLKP(h2, bp)), PACK(0, 1))
    IN  IF ~s.ok THEN [bp |-> NULL, h |-> h]
        ELSE IF h3.ub THEN [bp |-> bp, h |-> h3]
        ELSE coalesce(h3, bp)

\* ------------------------------------------------------------- find_fit
RECURSIVE find_fit_from(_, _, _)
find_fit_from(h, bp, asize) ==
    LET h0 == Reads(h, {HDRP(bp)})
    IN  IF h0.ub THEN [bp |-> NULL, h |-> h0]
        ELSE IF ~(GET_SIZE(h, HDRP(bp)) > 0) THEN [bp |-> NULL, h |-> h]
        ELSE IF GET_ALLOC(h, HDRP(bp)) = 0 /\ asize <= GET_SIZE(h, HDRP(bp))
             THEN [bp |-> bp, h |-> h]
        ELSE find_fit_from(h, NEXT_BLKP(h, bp), asize)

\* find_fit with a slip: the size of a free block is not compared
find_fit_first_free(h, listp, asize) == find_fit_from(h, listp, 0)

find_fit(h, listp, asize) == find_fit_from(h, listp, asize)

\* ---------------------------------------------------------------- place
place(h, bp, asize) ==
    LET h0 == Reads(h, {HDRP(bp)})
        csize == GET_SIZE(h, HDRP(bp))
    IN  IF h0.ub THEN h0
        ELSE IF Wrap(csize - asize) >= 2 * DSIZE THEN
            LET h1 == PUT(h0, HDRP(bp), PACK(asize, 1))
                h2 == PUT(h1, FTRP(h1, bp), PACK(asize, 1))
                r2 == Reads(h2, {bp - WSIZE})
                nbp == NEXT_BLKP(h2, bp)
                h3 == PUT(r2, HDRP(nbp), PACK(Wrap(csize - asize), 0))
                h4 == PUT(h3, FTRP(h3, nbp), PACK(Wrap(csize - asize), 0))
            IN  h4
        ELSE
            LET h1 == PUT(h0, HDRP(bp), PACK(csize, 1))
                h2 == PUT(h1, FTRP(h1, bp), PACK(csize, 1))
            IN  h2

\* ------------------------------------------------------------ mm_malloc
\* the adjustment with a slip: the round-up adds DSIZE where it should add
\* DSIZE - 1
AdjustedSize_adds_eight(size) ==
    IF size <= DSIZE THEN 2 * DSIZE
    ELSE Wrap(DSIZE * (Wrap(size + DSIZE + DSIZE) \div DSIZE))

\* the adjusted block size of a request
AdjustedSize(size) ==
    IF size <= DSIZE THEN 2 * DSIZE
    ELSE Wrap(DSIZE * (Wrap(size + DSIZE + (DSIZE - 1)) \div DSIZE))

\* Result: [ret, h, grew, nomem]: the returned pointer, the heap, whether
\* the heap was grown and whether the growth primitive failed.
\* after extend_heap has answered with e = [bp, h]
malloc_extended(e, asize) ==
    IF e.bp = NULL THEN [ret |-> NULL, h |-> e.h, grew |-> FALSE, nomem |-> TRUE]
    ELSE [ret |-> e.bp, h |-> place(e.h, e.bp, asize), grew |-> TRUE, nomem |-> FALSE]

\* after find_fit has answered with f = [bp, h]
malloc_searched(f, limit, asize) ==
    IF f.h.ub THEN [ret |-> NULL, h |-> f.h, grew |-> FALSE, nomem |-> FALSE]
    ELSE IF f.bp # NULL THEN
        [ret |-> f.bp, h |-> place(f.h, f.bp, asize), grew |-> FALSE, nomem |-> FALSE]
    ELSE malloc_extended(extend_heap(f.h, limit, MAX(asize, CHUNKSIZE) \div WSIZE), asize)

mm_malloc(h, listp, limit, size) ==
    IF size = 0 THEN [ret |-> NULL, h |-> h, grew |-> FALSE, nomem |-> FALSE]
    ELSE malloc_searched(find_fit(h, listp, AdjustedSize(size)), limit, AdjustedSize(size))

\* -------------------------------------------------------------- mm_free
\* mm_free with a slip: the header keeps its allocation bit
mm_free_keeps_header(h, ptr) ==
    LET h0 == Reads(h, {HDRP(ptr)})
        size == GET_SIZE(h, HDRP(ptr))
        h2 == PUT(h0, FTRP(h0, ptr), PACK(size, 0))
    IN  IF h2.ub THEN h2 ELSE coalesce(h2, ptr).h

mm_free(h, ptr) ==
    LET h0 == Reads(h, {HDRP(ptr)})
        size == GET_SIZE(h, HDRP(ptr))
        h1 == PUT(h0, HDRP(ptr), PACK(size, 0))
        h2 == PUT(h1, FTRP(h1, ptr), PACK(size, 0))
    IN  IF h2.ub THEN h2 ELSE coalesce(h2, ptr).h

\* --------------------------------------------------------------- memcpy
\* n bytes from src to dst; an indeterminate byte is copied as such
memcpy(h, dst, src, n) ==
    IF n = 0 THEN h
    ELSE IF h.ub \/ ~InHeap(h, dst, n) \/ ~InHeap(h, src, n)
            \/ (dst < src + n /\ src < dst + n)
    THEN [h EXCEPT !.ub = TRUE]
    ELSE LET kept == {a \in DOMAIN h.mem : a < dst \/ a >= dst + n}
             got  == {a \in DOMAIN h.mem : a >= src /\ a < src + n}
         IN  [h EXCEPT !.mem = [a \in kept \cup {dst + (b - src) : b \in got} |->
                                   IF a >= dst /\ a < dst + n THEN h.mem[src + (a - dst)]
                                   ELSE h.mem[a]]]

\* ----------------------------------------------------------- mm_realloc
\* the copy with a slip: the old block is released although no new one
\* could be allocated
realloc_copy_releases_first(m, ptr, size) ==
    LET newptr == m.ret
        h0 == Reads(m.h, {HDRP(ptr)})
        oldPayload == Wrap(GET_SIZE(m.h, HDRP(ptr)) - DSIZE)
        copySize == IF size < oldPayload THEN size ELSE oldPayload
        h1 == memcpy(h0, newptr, ptr, copySize)
    IN  IF newptr = NULL THEN [m EXCEPT !.h = mm_free(m.h, ptr)]
        ELSE IF h1.ub THEN [m EXCEPT !.h = h1]
        ELSE [m EXCEPT !.h = mm_free(h1, ptr)]

\* after mm_malloc has answered with m: the copy and the release of the
\* old block
realloc_copy(m, ptr, size) ==
    LET newptr == m.ret
        h0 == Reads(m.h, {HDRP(ptr)})
        oldPayload == Wrap(GET_SIZE(m.h, HDRP(ptr)) - DSIZE)
        copySize == IF size < oldPayload THEN size ELSE oldPayload
        h1 == memcpy(h0, newptr, ptr, copySize)
    IN  IF newptr = NULL THEN m
        ELSE IF h1.ub THEN [m EXCEPT !.h = h1]
        ELSE [m EXCEPT !.h = mm_free(h1, ptr)]

\* mm_realloc with a slip: a size of 0 returns NULL and releases nothing
mm_realloc_keeps_on_zero(h, listp, limit, ptr, size) ==
    IF ptr = NULL THEN mm_malloc(h, listp, limit, size)
    ELSE IF size = 0 THEN [ret |-> NULL, h |-> h, grew |-> FALSE, nomem |-> FALSE]
    ELSE realloc_copy(mm_malloc(h, listp, limit, size), ptr, size)

\* Result: [ret, h, grew, nomem] as for mm_malloc.
mm_realloc(h, listp, limit, ptr, size) ==
    IF ptr = NULL THEN mm_malloc(h, listp, limit, size)
    ELSE IF size = 0 THEN
        [ret |-> NULL, h |-> mm_free(h, ptr), grew |-> FALSE, nomem |-> FALSE]
    ELSE realloc_copy(mm_malloc(h, listp, limit, size), ptr, size)

\* -------------------------------------------------------------- mm_init
\* mm_init with a slip: the alignment padding word is left out
mm_init_without_padding(h, limit) ==
    LET s  == mem_sbrk(h, limit, 3 * WSIZE)
        l0 == s.old
        h2 == PUT(s.h, l0, PACK(DSIZE, 1))
        h3 == PUT(h2, l0 + (1 * WSIZE), PACK(DSIZE, 1))
        h4 == PUT(h3, l0 + (2 * WSIZE), PACK(0, 1))
        l1 == l0 + (1 * WSIZE)
        e  == extend_heap(h4, limit, CHUNKSIZE \div WSIZE)
    IN  IF ~s.ok THEN [ret |-> -1, h |-> h, listp |-> s.old]
        ELSE IF e.bp = NULL THEN [ret |-> -1, h |-> e.h, listp |-> l1]
        ELSE [ret |-> 0, h |-> e.h, listp |-> l1]

\* Result: [ret, h, listp]: 0 or -1, the heap, the new value of heap_listp.
mm_init(h, limit) ==
    LET s  == mem_sbrk(h, limit, 4 * WSIZE)
        l0 == s.old
        h1 == PUT(s.h, l0, 0)
        h2 == PUT(h1, l0 + (1 * WSIZE), PACK(DSIZE, 1))
        h3 == PUT(h2, l0 + (2 * WSIZE), PACK(DSIZE, 1))
        h4 == PUT(h3, l0 + (3 * WSIZE), PACK(0, 1))
        l1 == l0 + (2 * WSIZE)
        e  == extend_heap(h4, limit, CHUNKSIZE \div WSIZE)
    IN  IF ~s.ok THEN [ret |-> -1, h |-> h, listp |-> s.old]
        ELSE IF e.bp = NULL THEN [ret |-> -1, h |-> e.h, listp |-> l1]
        ELSE [ret |-> 0, h |-> e.h, listp |-> l1]

\* ============================================================ the caller
TheHeap == Heap(mem, mem_brk, FALSE)

\* The record of a call: its arguments (for mm_free, size is the size the
\* pointer was requested with), the returned pointer, the size in the
\* header of the returned block (for mm_free: of the released block, and
\* the sizes lo and hi of the free blocks before and after it, 0 when
\* allocated), the break before and after, whether the growth primitive
\* failed, whether the call was undefined.
Call(op, size, ptr) ==
    [op |-> op, size |-> size, ptr |-> ptr, ret |-> NULL, bsize |-> 0, lo |-> 0, hi |-> 0,
     brk0 |-> mem_brk, brk1 |-> mem_brk, nomem |-> FALSE, undef |-> FALSE]

\* the size of the free block that ends before the block bp, that begins
\* after it; 0 when that neighbour is allocated
FreeBefore(h, bp) == IF GET_ALLOC(h, bp - DSIZE) = 0 THEN GET_SIZE(h, bp - DSIZE) ELSE 0
FreeAfter(h, bp) ==
    IF GET_ALLOC(h, HDRP(NEXT_BLKP(h, bp))) = 0 THEN GET_SIZE(h, HDRP(NEXT_BLKP(h, bp))) ELSE 0

\* size + DSIZE + (DSIZE - 1) does not fit size_t
Wraps(size) == size + DSIZE + (DSIZE - 1) >= SizeMod

Push(rec) == IF Len(hist) < HistLen THEN Append(hist, rec) ELSE Append(Tail(hist), rec)

\* the call ran into undefined behaviour
Undefined(call) ==
    /\ ub' = TRUE
    /\ hist' = Push([call EXCEPT !.undef = TRUE])
    /\ ncalls' = ncalls + 1
    /\ wrapped' = (wrapped \/ Wraps(call.size))
    /\ UNCHANGED <<mem, mem_brk, mem_max, heap_listp, phase, live>>

\* the call returned with the heap h
Returned(call, r, newlive) ==
    /\ mem' = r.h.mem
    /\ mem_brk' = r.h.brk
    /\ live' = newlive
    /\ hist' = Push([call EXCEPT !.ret = r.ret, !.brk1 = r.h.brk, !.nomem = r.nomem,
                                  !.bsize = IF r.ret = NULL THEN call.bsize
                                            ELSE GET_SIZE(r.h, HDRP(r.ret))])
    /\ ncalls' = ncalls + 1
    /\ wrapped' = (wrapped \/ Wraps(call.size))
    /\ UNCHANGED <<mem_max, heap_listp, ub, phase>>

\* mm_malloc gets past its test of size and computes asize
Adjusts(size) == req' = size /\ adjusted' = AdjustedSize(size)

Init ==
    /\ mem = << >>
    /\ mem_brk = HeapBase
    /\ mem_max \in HeapLimits
    /\ heap_listp = NULL
    /\ ub = FALSE
    /\ phase = "new"
    /\ live = {}
    /\ hist = << >>
    /\ ncalls = 0
    /\ wrapped = FALSE
    /\ req = 0
    /\ adjusted = 0

MmInit ==
    /\ phase = "new"
    /\ \E r \in {mm_init(TheHeap, mem_max)} :
           /\ mem' = r.h.mem
           /\ mem_brk' = r.h.brk
           /\ heap_listp' = r.listp
           /\ phase' = IF r.ret = 0 THEN "ready" ELSE "failed"
           /\ hist' = Push([Call("init", 0, NULL) EXCEPT
                               !.ret = r.ret, !.brk1 = r.h.brk, !.nomem = (r.ret # 0)])
           /\ ncalls' = ncalls + 1
           /\ UNCHANGED <<mem_max, ub, live, wrapped, req, adjusted>>

Malloc(size) ==
    /\ phase = "ready" /\ ~ub /\ ncalls < MaxCalls
    /\ Cardinality(live) < MaxLive
    /\ Adjusts(size)
    /\ \E r \in {mm_malloc(TheHeap, heap_listp, mem_max, size)} :
           IF r.h.ub THEN Undefined(Call("malloc", size, NULL))
           ELSE Returned(Call("malloc", size, NULL), r,
                         IF r.ret = NULL THEN live ELSE live \cup {<<r.ret, size>>})

Free(e) ==
    /\ phase = "ready" /\ ~ub /\ ncalls < MaxCalls
    /\ e \in live
    /\ UNCHANGED <<req, adjusted>>
    /\ \E h \in {mm_free(TheHeap, e[1])},
          call \in {[Call("free", e[2], e[1]) EXCEPT
                        !.bsize = GET_SIZE(TheHeap, HDRP(e[1])),
                        !.lo = FreeBefore(TheHeap, e[1]),
                        !.hi = FreeAfter(TheHeap, e[1])]} :
           IF h.ub THEN Undefined(call)
           ELSE Returned(call, [ret |-> NULL, h |-> h, nomem |-> FALSE], live \ {e})

Realloc(e, size) ==
    /\ phase = "ready" /\ ~ub /\ ncalls < MaxCalls
    /\ e \in live \cup {<<NULL, 0>>}
    /\ e[1] = NULL => Cardinality(live) < MaxLive
    /\ IF size # 0 THEN Adjusts(size) ELSE UNCHANGED <<req, adjusted>>
    /\ \E r \in {mm_realloc(TheHeap, heap_listp, mem_max, e[1], size)} :
           LET rest == IF e[1] = NULL \/ (size # 0 /\ r.ret = NULL) THEN live ELSE live \ {e}
           IN  IF r.h.ub THEN Undefined(Call("realloc", size, e[1]))
               ELSE Returned(Call("realloc", size, e[1]), r,
                             IF r.ret = NULL THEN rest ELSE rest \cup {<<r.ret, size>>})

\* adjusted sizes the scan is tried with in every heap: the least, one
\* above a chunk, one above two chunks
ScanSizes == {2 * DSIZE, CHUNKSIZE + DSIZE, 2 * CHUNKSIZE + 2 * DSIZE}

\* the caller stores a byte at the start of a payload it holds
Store(e) ==
    /\ phase = "ready" /\ ~ub
    /\ e \in live
    /\ hist # << >> /\ hist[Len(hist)].ret = e[1]
    /\ mem' = (e[1] :> PayloadByte) @@ mem
    /\ UNCHANGED <<mem_brk, mem_max, heap_listp, ub, phase, live, hist, ncalls, wrapped,
                   req, adjusted>>

Next ==
    \/ MmInit
    \/ \E size \in Sizes : Malloc(size)
    \/ \E e \in live : Free(e)
    \/ \E size \in NullSizes : Realloc(<<NULL, 0>>, size)
    \/ \E e \in live, size \in ReSizes : Realloc(e, size)
    \/ \E e \in live : Store(e)

Spec == Init /\ [][Next]_vars

\* ---------------------------------------------------- prepared heaps
\* The heap after mm_init(); a = mm_malloc(1); b = mm_realloc(a, 16): a free
\* block of 16 bytes, the block of b, and the free rest of the chunk.
Fragmented(i) ==
    \E a \in {mm_malloc(i.h, i.listp, MaxHeap, 1)} :
        \E b \in {mm_realloc(a.h, i.listp, MaxHeap, a.ret, 16)} :
            /\ mem = b.h.mem
            /\ mem_brk = b.h.brk
            /\ live = {<<b.ret, 16>>}

\* The heap after mm_init(); p1 = mm_malloc(16); p2 = mm_malloc(16).
Paired(i) ==
    \E p1 \in {mm_malloc(i.h, i.listp, MaxHeap, 16)} :
        \E p2 \in {mm_malloc(p1.h, i.listp, MaxHeap, 16)} :
            /\ mem = p2.h.mem
            /\ mem_brk = p2.h.brk
            /\ live = {<<p1.ret, 16>>, <<p2.ret, 16>>}

\* the runs that go on from a prepared heap; ncalls counts mm_init and the
\* calls of the run
InitFrag ==
    /\ \E i \in {mm_init(Heap(<< >>, HeapBase, FALSE), MaxHeap)} :
            /\ heap_listp = i.listp
            /\ Fragmented(i) \/ Paired(i)
    /\ mem_max = MaxHeap
    /\ ub = FALSE
    /\ phase = "ready"
    /\ hist = << >>
    /\ ncalls = 1
    /\ wrapped = FALSE
    /\ req = 0
    /\ adjusted = 0

NextFrag ==
    \/ \E size \in Sizes : Malloc(size)
    \/ \E e \in live : Free(e)
    \/ \E e \in live, size \in ReSizes : Realloc(e, size)
    \/ \E e \in live : Store(e)

SpecFrag == InitFrag /\ [][NextFrag]_vars

\* ------------------------------------------------ the size adjustment
\* mm_malloc's computation of asize alone, on the least and the greatest
\* values of size_t.
Requests == (0 .. MaxReq) \cup (SizeMod - 1 - MaxReq .. SizeMod - 1)

InitAdjust ==
    /\ mem = << >>
    /\ mem_brk = HeapBase
    /\ mem_max = MaxHeap
    /\ heap_listp = NULL
    /\ ub = FALSE
    /\ phase = "adjust"
    /\ live = {}
    /\ hist = << >>
    /\ ncalls = 0
    /\ wrapped = FALSE
    /\ req \in Requests
    /\ adjusted = 0

Adjust ==
    /\ phase = "adjust"
    /\ phase' = "adjusted"
    /\ Adjusts(req)
    /\ UNCHANGED <<mem, mem_brk, mem_max, heap_listp, ub, live, hist, ncalls, wrapped>>

SpecAdjust == InitAdjust /\ [][Adjust]_vars

\* ======================================================= the block chain
\* The blocks met walking from bp by the sizes the headers encode, up to a
\* header of size 0 or a word that cannot be read.
RECURSIVE BlockChain(_, _)
BlockChain(h, bp) ==
    IF ~Readable(h, HDRP(bp)) \/ GET_SIZE(h, HDRP(bp)) = 0 THEN << >>
    ELSE <<bp>> \o BlockChain(h, NEXT_BLKP(h, bp))

\* the address at which that walk stops
RECURSIVE ChainEnd(_, _)
ChainEnd(h, bp) ==
    IF ~Readable(h, HDRP(bp)) \/ GET_SIZE(h, HDRP(bp)) = 0 THEN bp
    ELSE ChainEnd(h, NEXT_BLKP(h, bp))

\* the first block after the prologue, and the blocks of the heap
FirstBlock == heap_listp + DSIZE
Blocks == BlockChain(TheHeap, FirstBlock)

BlockSize(bp) == GET_SIZE(TheHeap, HDRP(bp))
BlockAlloc(bp) == GET_ALLOC(TheHeap, HDRP(bp))
IsFree(bp) == BlockAlloc(bp) = 0

\* the header and the footer of the block are readable and equal
TagsAgree(bp) ==
    /\ Readable(TheHeap, HDRP(bp))
    /\ Readable(TheHeap, FTRP(TheHeap, bp))
    /\ GET(TheHeap, HDRP(bp)) = GET(TheHeap, FTRP(TheHeap, bp))

Last == hist[Len(hist)]
\* a call of the allocator has returned (mm_init with 0)
Completed == phase = "ready" /\ ~ub

\* ================================================================ claims

\* C1: after every completed call no two address-adjacent blocks are both
\* free.
NoAdjacentFree ==
    Completed =>
        \A i \in 1 .. Len(Blocks) - 1 : ~(IsFree(Blocks[i]) /\ IsFree(Blocks[i + 1]))

\* C2: the block of a pointer mm_malloc(n) returned, n > 0, has a header
\* and a footer that report the same size and allocated = 1, the size is a
\* multiple of 8 and at least n + 8.
MallocBlockHoldsRequest ==
    (Completed /\ hist # << >> /\ Last.op = "malloc" /\ Last.ret # NULL) =>
        /\ TagsAgree(Last.ret)
        /\ BlockAlloc(Last.ret) = 1
        /\ BlockSize(Last.ret) % ALIGNMENT = 0
        /\ BlockSize(Last.ret) >= Last.size + DSIZE

\* C3: after every completed call every block between the sentinels has a
\* size that is a multiple of 8 and at least 16.
BlockSizesMinAligned ==
    Completed =>
        \A i \in 1 .. Len(Blocks) :
            BlockSize(Blocks[i]) % ALIGNMENT = 0 /\ BlockSize(Blocks[i]) >= 2 * DSIZE

\* C4: after every completed call the header and the footer of every
\* block, the prologue included, encode the same size and allocation bit.
HeadersMatchFooters ==
    Completed =>
        /\ TagsAgree(heap_listp)
        /\ \A i \in 1 .. Len(Blocks) : TagsAgree(Blocks[i])

\* C5: after every completed call the heap begins with the allocated
\* prologue of size 8, its last word is the allocated epilogue header of
\* size 0, and the walk from the first block by the encoded sizes stops
\* exactly on that epilogue header.
SentinelsDelimitTiling ==
    Completed =>
        /\ GET(TheHeap, HeapBase + WSIZE) = PACK(DSIZE, 1)
        /\ heap_listp = HeapBase + 2 * WSIZE
        /\ GET(TheHeap, mem_brk - WSIZE) = PACK(0, 1)
        /\ HDRP(ChainEnd(TheHeap, FirstBlock)) = mem_brk - WSIZE

\* the k-th latest call
H(k) == hist[Len(hist) - k]

\* C6: when the growth primitive fails during mm_malloc or mm_realloc the
\* call returns NULL and leaves every byte of the heap, the break and the
\* caller's pointers as they were.
GrowthFailureLeavesHeap ==
    [][(/\ ncalls' = ncalls + 1
        /\ hist'[Len(hist')].op \in {"malloc", "realloc"}
        /\ hist'[Len(hist')].nomem)
        => (/\ hist'[Len(hist')].ret = NULL
            /\ ~ub'
            /\ mem' = mem
            /\ mem_brk' = mem_brk
            /\ live' = live)]_vars

\* C6 witness: mm_realloc(p, size) of a held pointer, size > 0, has failed in
\* the growth primitive; the block of p is allocated and holds the byte the
\* caller stored.
GrowthFailureInRealloc ==
    /\ Completed /\ hist # << >>
    /\ Last.op = "realloc" /\ Last.ptr # NULL /\ Last.size > 0
    /\ Last.nomem /\ Last.ret = NULL
    /\ BlockAlloc(Last.ptr) = 1
    /\ Last.ptr \in DOMAIN mem
    /\ mem[Last.ptr] = PayloadByte

\* C7: when mm_init fails no byte has been acquired from the growth
\* primitive or written.
InitFailureLeavesNothing ==
    phase = "failed" => (mem_brk = HeapBase /\ mem = << >>)

\* the latest three calls are p = mm_malloc(n), mm_free(p), mm_malloc(m)
Trip ==
    /\ Len(hist) >= 3
    /\ H(2).op = "malloc" /\ H(2).ret # NULL /\ ~H(2).undef
    /\ H(1).op = "free" /\ H(1).ptr = H(2).ret /\ ~H(1).undef
    /\ H(0).op = "malloc"

\* m is no larger than the payload of the block of p
FitsPayload == H(0).size <= H(2).bsize - DSIZE

RoundTripSamePointer ==
    (Trip /\ H(0).size = H(2).size) =>
        (~H(0).undef /\ H(0).ret = H(2).ret /\ H(0).brk1 = H(0).brk0)

\* the latest two calls released two address-adjacent blocks that had been
\* requested with 16 bytes each, the lower one first
Pair ==
    /\ Len(hist) >= 2
    /\ H(1).op = "free" /\ H(1).size = 16 /\ ~H(1).undef
    /\ H(0).op = "free" /\ H(0).size = 16 /\ ~H(0).undef
    /\ H(0).ptr = H(1).ptr + H(1).bsize

\* the block of the chain that holds the address p
Holder(p) == {b \in {Blocks[i] : i \in 1 .. Len(Blocks)} : b <= p /\ p < b + BlockSize(b)}

IsCall == ncalls' = ncalls + 1
Now == hist'[Len(hist')]

\* the step leaves the heap and the result that r = [ret, h] tells, or is
\* undefined as r is
StepsAs(r) ==
    IF r.h.ub THEN ub'
    ELSE ~ub' /\ mem' = r.h.mem /\ mem_brk' = r.h.brk /\ Now.ret = r.ret

\* C11: mm_realloc(NULL, size) returns the pointer and leaves the heap that
\* mm_malloc(size) would (NULL and an untouched heap for size 0), and
\* mm_realloc(p, 0) of a held p returns NULL and leaves the heap that
\* mm_free(p) would.
DegenerateReallocAsSimpler ==
    [][(IsCall /\ Now.op = "realloc") =>
          /\ Now.ptr = NULL =>
                /\ StepsAs(mm_malloc(TheHeap, heap_listp, mem_max, Now.size))
                /\ Now.size = 0 => (Now.ret = NULL /\ mem' = mem /\ mem_brk' = mem_brk)
          /\ (Now.ptr # NULL /\ Now.size = 0) =>
                StepsAs([ret |-> NULL, h |-> mm_free(TheHeap, Now.ptr)])]_vars

\* C11 witness: mm_realloc(NULL, 16) has returned p and mm_realloc(p, 0) has
\* then returned NULL and left the block of p free.
ReallocAllocatedThenReleased ==
    /\ Completed /\ Len(hist) >= 2
    /\ H(1).op = "realloc" /\ H(1).ptr = NULL /\ H(1).size = 16 /\ H(1).ret # NULL
    /\ H(0).op = "realloc" /\ H(0).ptr = H(1).ret /\ H(0).size = 0 /\ H(0).ret = NULL
    /\ \E b \in Holder(H(0).ptr) : IsFree(b)

\* C12: for a request size s >= 8 that is a multiple of 8, s + 16 not
\* overflowing, the adjusted size of s + 1 is the adjusted size of s plus 8.
AdjustedStepsByEight ==
    (phase = "adjusted" /\ req >= 8 /\ req % 8 = 0 /\ req + 16 < SizeMod) =>
        AdjustedSize(req + 1) = adjusted + 8

\* C12 witness: the size 8, the greatest the first branch adjusts to 16, and
\* the greatest multiple of 8 in the range of the claim, have been adjusted.
AdjustedBoundary ==
    /\ phase = "adjusted"
    /\ \/ req = DSIZE /\ adjusted = 2 * DSIZE
       \/ req = SizeMod - 24 /\ adjusted = SizeMod - 16

\* the free blocks of the heap that hold at least n bytes, and the lowest
\* address of a set of blocks
FreeFits(n) == {b \in {Blocks[i] : i \in 1 .. Len(Blocks)} : IsFree(b) /\ BlockSize(b) >= n}
Lowest(S) == CHOOSE b \in S : \A c \in S : b <= c

\* C13: when a free block of at least asize bytes exists mm_malloc returns
\* the payload of the lowest such block and leaves the break where it was;
\* when none exists it grows the heap or fails in the growth primitive.
FirstFitLowest ==
    [][(IsCall /\ Now.op = "malloc") =>
          IF FreeFits(adjusted') # {}
          THEN /\ ~Now.undef
               /\ Now.ret = Lowest(FreeFits(adjusted'))
               /\ mem_brk' = mem_brk
          ELSE ~Now.undef /\ (mem_brk' > mem_brk \/ (Now.nomem /\ Now.ret = NULL))]_vars

\* the heap in which mm_free calls coalesce: the header and the footer of
\* the block of ptr say free
Unallocated(h, ptr) ==
    PUT(PUT(h, HDRP(ptr), PACK(GET_SIZE(h, HDRP(ptr)), 0)),
        FTRP(h, ptr), PACK(GET_SIZE(h, HDRP(ptr)), 0))

\* what coalesce(b) has to give in the heap h, by the claim: r = [bp, h]
\* is the free block that spans b and its free neighbours
Merged(h, b, r) ==
    LET lo == FreeBefore(h, b)
        hi == FreeAfter(h, b)
        sz == GET_SIZE(h, HDRP(b))
    IN  /\ ~r.h.ub
        /\ r.bp = b - lo
        /\ GET(r.h, HDRP(r.bp)) = PACK(lo + sz + hi, 0)
        /\ FTRP(r.h, r.bp) = b + sz + hi - DSIZE
        /\ GET(r.h, FTRP(r.h, r.bp)) = PACK(lo + sz + hi, 0)
        /\ (lo = 0 /\ hi = 0) => (r.h = h /\ coalesce(r.h, r.bp) = r)

\* C14: coalesce(b), as mm_free calls it on the block b it has marked free,
\* returns the free block that spans b and those of its two neighbours that
\* were free: it starts at the predecessor when that was free and at b
\* otherwise, its header and footer carry the sum of the merged sizes, and
\* with no free neighbour the heap is unchanged, b is returned and a second
\* coalesce changes nothing.  mm_free leaves the heap coalesce returned.
CoalesceSpansFreeNeighbours ==
    [][(IsCall /\ Now.op = "free") =>
          /\ Merged(Unallocated(TheHeap, Now.ptr), Now.ptr,
                    coalesce(Unallocated(TheHeap, Now.ptr), Now.ptr))
          /\ mem' = coalesce(Unallocated(TheHeap, Now.ptr), Now.ptr).h.mem]_vars

\* the block mm_malloc(size) hands to place, with the heap at that point:
\* [bp, h], bp = NULL when there is none; n is asize
ToPlace(n) ==
    LET f == find_fit(TheHeap, heap_listp, n)
    IN  IF f.h.ub \/ f.bp # NULL THEN f
        ELSE extend_heap(f.h, mem_max, MAX(n, CHUNKSIZE) \div WSIZE)

\* the bytes of the heaps h and h2 outside the addresses lo .. hi - 1 are
\* the same
SameOutside(h, h2, lo, hi) ==
    /\ h2.brk = h.brk
    /\ \A a \in (DOMAIN h.mem \cup DOMAIN h2.mem) \ (lo .. hi - 1) :
            a \in DOMAIN h.mem /\ a \in DOMAIN h2.mem /\ h.mem[a] = h2.mem[a]

\* what place(bp, n) has to make of the heap h, by the claim: h2 when the
\* block of bp is free in h and holds at least n bytes
Placed(h, bp, n, h2) ==
    LET csize == GET_SIZE(h, HDRP(bp))
    IN  (GET_ALLOC(h, HDRP(bp)) = 0 /\ csize >= n) =>
            /\ ~h2.ub
            /\ SameOutside(h, h2, HDRP(bp), HDRP(bp) + csize)
            /\ IF csize - n >= 2 * DSIZE
               THEN /\ GET(h2, HDRP(bp)) = PACK(n, 1)
                    /\ GET(h2, bp + n - DSIZE) = PACK(n, 1)
                    /\ GET(h2, HDRP(bp + n)) = PACK(csize - n, 0)
                    /\ GET(h2, bp + csize - DSIZE) = PACK(csize - n, 0)
               ELSE /\ GET(h2, HDRP(bp)) = PACK(csize, 1)
                    /\ GET(h2, bp + csize - DSIZE) = PACK(csize, 1)

\* C15: place(bp, asize), as mm_malloc calls it on a free block of csize >=
\* asize bytes, splits exactly when csize - asize >= 16: then the low asize
\* bytes are an allocated block and the rest a free block right after it;
\* otherwise the whole block is allocated with size csize; no byte outside
\* the block changes.  mm_malloc leaves the heap place made.
PlaceSplitsAtSixteen ==
    [][(IsCall /\ Now.op = "malloc") =>
          \A t \in {ToPlace(adjusted')} :
              (~t.h.ub /\ t.bp # NULL) =>
                  \A h2 \in {place(t.h, t.bp, adjusted')} :
                      /\ Placed(t.h, t.bp, adjusted', h2)
                      /\ ~ub' => mem' = h2.mem]_vars

\* the byte at address a of the memory m is the byte at address b of the
\* memory n, indeterminate where that is
SameByte(m, a, n, b) ==
    IF b \in DOMAIN n THEN a \in DOMAIN m /\ m[a] = n[b] ELSE a \notin DOMAIN m

\* the number of bytes mm_realloc(ptr, size) has to copy
CopySize(ptr, size) ==
    IF size < BlockSize(ptr) - DSIZE THEN size ELSE BlockSize(ptr) - DSIZE

\* in the heap h, whose first block is first, the address p lies in a
\* free block
InFreeBlock(h, first, p) ==
    \A ch \in {BlockChain(h, first)} :
        \E i \in 1 .. Len(ch) :
            /\ ch[i] <= p /\ p < ch[i] + GET_SIZE(h, HDRP(ch[i]))
            /\ GET_ALLOC(h, HDRP(ch[i])) = 0

\* C16: mm_realloc(p, size) of a held p with size > 0 that returns a pointer
\* returns one different from p, to an allocated block whose first
\* min(size, old block size - 8) payload bytes are those the block of p held
\* when the call was made, and leaves p inside a free block.
ReallocMovesAndCopies ==
    [][(IsCall /\ Now.op = "realloc" /\ Now.ptr # NULL /\ Now.size > 0) =>
          \A c \in {Now} :
              /\ ~c.undef
              /\ c.ret # NULL =>
                    /\ c.ret # c.ptr
                    /\ GET_ALLOC(Heap(mem', mem_brk', FALSE), HDRP(c.ret)) = 1
                    /\ \A i \in 0 .. CopySize(c.ptr, c.size) - 1 :
                            SameByte(mem', c.ret + i, mem, c.ptr + i)
                    /\ InFreeBlock(Heap(mem', mem_brk', FALSE), FirstBlock, c.ptr)]_vars

\* the n bytes from a and the m bytes from b have no byte in common
Disjoint(a, n, b, m) == a + n <= b \/ b + m <= a

\* C17: the block of a pointer mm_malloc or mm_realloc returns has no byte
\* in common with the block of a pointer the caller holds, and it was a
\* free block, or the start of the new region, when the call was made.
LiveBlocksDisjoint ==
    [][(IsCall /\ Now.op \in {"malloc", "realloc"} /\ Now.ret # NULL) =>
          \A c \in {Now}, h2 \in {Heap(mem', mem_brk', FALSE)} :
              /\ c.ret = mem_brk \/ GET_ALLOC(TheHeap, HDRP(c.ret)) = 0
              /\ \A e \in live :
                    Disjoint(HDRP(c.ret), GET_SIZE(h2, HDRP(c.ret)),
                             HDRP(e[1]), BlockSize(e[1]))]_vars

\* C18: in every heap a completed call has left find_fit ends inside the
\* heap: it returns a free block of at least asize bytes, or it has come to
\* the header of size 0 and returns no block.
ScanEndsInHeap ==
    Completed =>
        \A n \in ScanSizes :
            \A f \in {find_fit(TheHeap, heap_listp, n)} :
                /\ ~f.h.ub
                /\ IF f.bp # NULL
                   THEN IsFree(f.bp) /\ BlockSize(f.bp) >= n
                   ELSE GET(TheHeap, HDRP(ChainEnd(TheHeap, heap_listp))) = PACK(0, 1)

\* C19: every pointer mm_malloc or mm_realloc returns lies a multiple of 8
\* bytes after the start of the heap region.
ReturnedPointersAligned ==
    \A k \in 1 .. Len(hist) :
        (hist[k].op \in {"malloc", "realloc"} /\ hist[k].ret # NULL) =>
            (hist[k].ret - HeapBase) % ALIGNMENT = 0

\* C19 witness: mm_malloc has returned a pointer after it has grown the
\* heap, and mm_realloc a pointer to a block that is not the first.
ReturnedAfterGrowthAndMove ==
    /\ Completed /\ Len(hist) >= 2
    /\ H(1).op = "malloc" /\ H(1).ret # NULL /\ H(1).brk1 > H(1).brk0
    /\ H(0).op = "realloc" /\ H(0).ret # NULL /\ H(0).ret > FirstBlock

\* C20: whenever mm_malloc, called by the caller or by mm_realloc, comes to
\* place(bp, asize), the block of bp is free and its size csize is at least
\* asize, so that csize - asize does not wrap, whether bp came from find_fit
\* or from extend_heap.
PlaceGetsFittingFreeBlock ==
    [][(IsCall /\ Now.op \in {"malloc", "realloc"} /\ Now.size # 0) =>
          \A t \in {ToPlace(adjusted')} :
              (~t.h.ub /\ t.bp # NULL) =>
                  /\ GET_ALLOC(t.h, HDRP(t.bp)) = 0
                  /\ GET_SIZE(t.h, HDRP(t.bp)) >= adjusted'
                  /\ Wrap(GET_SIZE(t.h, HDRP(t.bp)) - adjusted')
                        = GET_SIZE(t.h, HDRP(t.bp)) - adjusted']_vars

\* C20 witness: mm_malloc has placed a request larger than a chunk in the
\* block extend_heap returned, the new region merged with the free block
\* that ended the heap.
PlacedInMergedExtension ==
    /\ Completed /\ hist # << >>
    /\ Last.op = "malloc" /\ Last.ret # NULL
    /\ Last.brk1 > Last.brk0 /\ Last.ret < Last.brk0
    /\ adjusted > CHUNKSIZE /\ BlockSize(Last.ret) = adjusted

====
